---- MODULE Spec2Model ----
(***************************************************************************)
(* Model of the docker_registry_image resource of terraform-provider-docker *)
(* (docker/resource_docker_registry_image_funcs.go): the Create / Update /  *)
(* Delete handlers, pushImage and the registry manifest deletion            *)
(* removeRegistryImage with its bearer-token challenge flow.                *)
(*                                                                          *)
(* Go strings are TLA+ strings; every blocking client.Do is a point where   *)
(* the handler waits (pc) and the registry's answer is an input of the next *)
(* action.                                                                  *)
(***************************************************************************)
EXTENDS Integers, Sequences, FiniteSets, TLC

VARIABLES
    pc,              \* position of the running handler
    op,              \* the handler that is running / has returned
    calls,           \* number of handler calls started so far
    d,               \* schema.ResourceData: name, keep_remote, sha256_digest, id
    authConfigs,     \* ProviderConfig.AuthConfigs.Configs (read-only table)
    tfAcc,           \* environment variable TF_ACC: [set, value]
    defaultTransport,\* http.DefaultClient.Transport (process-wide)
    req,             \* removeRegistryImage: the DELETE request object
    username,        \* removeRegistryImage: parameter username
    password,        \* removeRegistryImage: parameter password
    resp,            \* removeRegistryImage: response of the initial DELETE
    tokenResponse,   \* removeRegistryImage: response of the token GET
    token,           \* removeRegistryImage: the decoded TokenResponse
    digestResponse,  \* removeRegistryImage: response of the retried DELETE
    wire,            \* requests the current call has handed to client.Do
    removeRet,       \* return value of removeRegistryImage
    push,            \* pushImage: engine call, stream and return value
    readCalls,       \* invocations of dataSourceDockerRegistryImageRead
    ret              \* return value of the handler

vars == <<pc, op, calls, d, authConfigs, tfAcc, defaultTransport, req, username,
          password, resp, tokenResponse, token, digestResponse, wire,
          removeRet, push, readCalls, ret>>

-----------------------------------------------------------------------------
(* Bounds of the model *)

MaxCalls == 2
MaxStream == 3

-----------------------------------------------------------------------------
(* Go's strings package, on TLA+ strings.  Positions are 1-based and 0 means *)
(* "not found" (Go: 0-based and -1).                                        *)

HasPrefix(s, p) == Len(s) >= Len(p) /\ SubSeq(s, 1, Len(p)) = p

Index(s, sub) ==
    LET hits == {i \in 1..(Len(s) - Len(sub) + 1) : SubSeq(s, i, i + Len(sub) - 1) = sub}
    IN  IF hits = {} THEN 0 ELSE CHOOSE i \in hits : \A j \in hits : i <= j

Contains(s, sub) == Index(s, sub) # 0

ContainsAny(s, chars) == \E i \in 1..Len(chars) : Contains(s, SubSeq(chars, i, i))

\* s with the Len(old) characters at position i replaced by new; s if i = 0
ReplaceAt(s, old, new, i) ==
    IF i = 0 THEN s
    ELSE SubSeq(s, 1, i - 1) \o new \o SubSeq(s, i + Len(old), Len(s))

\* strings.Replace(s, old, new, 1)
ReplaceFirst(s, old, new) == ReplaceAt(s, old, new, Index(s, old))

-----------------------------------------------------------------------------
(* net/http: status codes, status lines, headers *)

StatusOK == 200
StatusAccepted == 202
StatusUnauthorized == 401
StatusNotFound == 404

\* the status codes the registry and the token endpoint answer with here
Statuses == {StatusOK, StatusAccepted, StatusUnauthorized, StatusNotFound, 403, 500}

\* http.Response.Status, e.g. "404 Not Found"
StatusLine(code) ==
    CASE code = StatusOK -> "200 OK"
      [] code = StatusAccepted -> "202 Accepted"
      [] code = StatusUnauthorized -> "401 Unauthorized"
      [] code = StatusNotFound -> "404 Not Found"
      [] code = 403 -> "403 Forbidden"
      [] code = 500 -> "500 Internal Server Error"

\* http.Header: canonical key -> list of values; the keys this code touches
HeaderKeys == {"Authorization", "Www-Authenticate"}
EmptyHeader == [k \in HeaderKeys |-> <<>>]

\* textproto.CanonicalMIMEHeaderKey on the keys this code passes
CanonicalKey(k) ==
    CASE k = "www-authenticate" -> "Www-Authenticate"
      [] k = "Authorization" -> "Authorization"
      [] OTHER -> k

\* Header.Get: the first value of the key, "" when there is none
HeaderGet(h, k) ==
    LET v == h[CanonicalKey(k)] IN IF v = <<>> THEN "" ELSE v[1]

\* Header.Add appends a value
HeaderAdd(h, k, v) == [h EXCEPT ![CanonicalKey(k)] = Append(@, v)]

\* Header.Set replaces every value of the key
HeaderSet(h, k, v) == [h EXCEPT ![CanonicalKey(k)] = <<v>>]

\* base64 of s, kept symbolic: never equal to s
Base64(s) == "b64<" \o s \o ">"

\* Request.SetBasicAuth
SetBasicAuth(r, u, p) ==
    [r EXCEPT !.Header = HeaderSet(@, "Authorization", "Basic " \o Base64(u \o ":" \o p))]

-----------------------------------------------------------------------------
(* strconv.Atoi, url.QueryEscape, url.Values.Encode, encoding/json *)

Digits == "0123456789"

RECURSIVE DigitsValue(_, _)
\* value of the decimal digits of s after the accumulated acc
DigitsValue(s, acc) ==
    IF s = "" THEN acc
    ELSE DigitsValue(Tail(s), 10 * acc + (Index(Digits, Head(s)) - 1))

AllDigits(s) == s # "" /\ \A i \in 1..Len(s) : Contains(Digits, SubSeq(s, i, i))

\* the digits body read as a number of the given sign
AtoiDigits(body, negative) ==
    IF ~AllDigits(body) THEN [ok |-> FALSE, i |-> 0]
    ELSE [ok |-> TRUE, i |-> IF negative THEN 0 - DigitsValue(body, 0)
                             ELSE DigitsValue(body, 0)]

\* strconv.Atoi: [ok, i]; an optional sign, then decimal digits only
Atoi(s) ==
    IF s # "" /\ Head(s) \in {"+", "-"} THEN AtoiDigits(Tail(s), Head(s) = "-")
    ELSE AtoiDigits(s, FALSE)

\* url.QueryEscape on the characters that occur in a challenge
EscapeChar(c) ==
    CASE c = ":" -> "%3A"
      [] c = "/" -> "%2F"
      [] c = " " -> "+"
      [] c = "," -> "%2C"
      [] c = "=" -> "%3D"
      [] c = "\"" -> "%22"
      [] OTHER -> c

RECURSIVE QueryEscape(_)
QueryEscape(s) == IF s = "" THEN "" ELSE EscapeChar(Head(s)) \o QueryEscape(Tail(s))

\* url.Values{service, scope}.Encode(): keys in sorted order
EncodeParams(service, scope) ==
    "scope=" \o QueryEscape(scope) \o "&service=" \o QueryEscape(service)

\* the token-endpoint bodies of this model and json.Unmarshal of each into a
\* TokenResponse: [ok, Token]
BodyToken == "{\"token\":\"tok-1\"}"
BodyTokenAndMore == "{\"token\":\"tok-2\",\"expires_in\":300}"
BodyNoToken == "{}"
BodyTruncated == "{\"token\":\"tok"
BodyNotJSON == "<html>denied</html>"
Bodies == {BodyToken, BodyTokenAndMore, BodyNoToken, BodyTruncated, BodyNotJSON}

JsonUnmarshalToken(body) ==
    CASE body = BodyToken -> [ok |-> TRUE, Token |-> "tok-1"]
      [] body = BodyTokenAndMore -> [ok |-> TRUE, Token |-> "tok-2"]
      [] body = BodyNoToken -> [ok |-> TRUE, Token |-> ""]
      [] OTHER -> [ok |-> FALSE, Token |-> ""]

-----------------------------------------------------------------------------
(* Helpers of this package that live outside the two source files; modelled *)
(* from the specification (sections 4.1, 4.4).                              *)

\* does the leading path segment name a registry host
LooksLikeRegistry(lead) == ContainsAny(lead, ".:") \/ lead = "localhost"

\* the registry of an image whose first "/" is at firstSlash (0: none)
LeadingRegistry(image, firstSlash) ==
    IF firstSlash # 0 /\ LooksLikeRegistry(SubSeq(image, 1, firstSlash - 1))
    THEN SubSeq(image, 1, firstSlash - 1) ELSE ""

\* the options of an image with the given registry prefix whose tag
\* separator is tagIndex characters after the prefix (0: no tag)
SplitTag(image, registry, tagIndex) ==
    [Registry |-> registry,
     Repository |-> IF tagIndex = 0 THEN image
                    ELSE SubSeq(image, 1, Len(registry) + tagIndex - 1),
     Tag |-> IF tagIndex = 0 THEN ""
             ELSE SubSeq(image, Len(registry) + tagIndex + 1, Len(image))]

SplitRegistry(image, registry) ==
    SplitTag(image, registry, Index(SubSeq(image, Len(registry) + 1, Len(image)), ":"))

\* parseImageOptions: [Registry, Repository, Tag].  The leading segment is a
\* registry only if it contains "." or ":" or is "localhost"; Repository keeps
\* the registry prefix (the Delete handler filters it out); a ":" after the
\* registry starts the tag.
parseImageOptions(image) == SplitRegistry(image, LeadingRegistry(image, Index(image, "/")))

\* normalizeRegistryAddress: the scheme-qualified key of the credential table
normalizeRegistryAddress(address) ==
    IF address = "" THEN "https://registry.hub.docker.com"
    ELSE IF HasPrefix(address, "https://") \/ HasPrefix(address, "http://") THEN address
    ELSE "https://" \o address

RECURSIVE SplitOn(_, _)
\* strings.Split(s, sep)
SplitOn(s, sep) ==
    LET i == Index(s, sep)
    IN  IF i = 0 THEN <<s>>
        ELSE <<SubSeq(s, 1, i - 1)>> \o SplitOn(SubSeq(s, i + Len(sep), Len(s)), sep)

\* strings.Trim(s, "\"")
RECURSIVE TrimQuotes(_)
TrimQuotes(s) ==
    IF s # "" /\ Head(s) = "\"" THEN TrimQuotes(Tail(s))
    ELSE IF s # "" /\ SubSeq(s, Len(s), Len(s)) = "\"" THEN TrimQuotes(SubSeq(s, 1, Len(s) - 1))
    ELSE s

\* the value of a part key="value"
PartValue(part, key) == TrimQuotes(SubSeq(part, Len(key) + 2, Len(part)))

\* the value of the last part key="value" of parts, "" when there is none
ChallengeValue(parts, key) ==
    LET hits == {i \in 1..Len(parts) : HasPrefix(parts[i], key \o "=")}
    IN  IF hits = {} THEN ""
        ELSE PartValue(parts[CHOOSE j \in hits : \A k \in hits : j >= k], key)

ChallengeOf(parts) ==
    [realm |-> ChallengeValue(parts, "realm"),
     service |-> ChallengeValue(parts, "service"),
     scope |-> ChallengeValue(parts, "scope")]

\* parseAuthHeader: the comma-separated key="value" pairs of a Bearer
\* challenge; a key that is absent reads as ""
parseAuthHeader(header) == ChallengeOf(SplitOn(ReplaceFirst(header, "Bearer ", ""), ","))

-----------------------------------------------------------------------------
(* Inputs: resources, credential tables, environment, registry answers *)

Names == {"consul", "registry.hub.docker.com/library/consul",
          "reg.example.com:5000/team/app:v1", "team/app"}
DigestValues == {"sha256:1a2b", "sha256:3c4d"}

HubKey == "https://registry.hub.docker.com"
PrivateKey == "https://reg.example.com:5000"

NoAuth == [k \in {} |-> [Username |-> "", Password |-> ""]]
HubAuth == [k \in {HubKey} |-> [Username |-> "hubuser", Password |-> "hubpw"]]
PrivateAuth ==
    [k \in {HubKey, PrivateKey} |->
        IF k = HubKey THEN [Username |-> "hubuser", Password |-> "hubpw"]
        ELSE [Username |-> "ci", Password |-> "s3cret"]]
BlankUserAuth == [k \in {PrivateKey} |-> [Username |-> "", Password |-> "orphan"]]
AuthTables == {NoAuth, HubAuth, PrivateAuth, BlankUserAuth}

\* os.LookupEnv("TF_ACC"): unset, or set to one of these values
TfAccValues == {[set |-> FALSE, value |-> ""]} \cup
               {[set |-> TRUE, value |-> v] : v \in {"1", "0", "true"}}

\* a resource not yet created has neither digest nor ID; a created one is
\* identified by the digest read back from the registry
ResourceData ==
    {[name |-> n, keep_remote |-> k, sha256_digest |-> g, id |-> g] :
        n \in Names, k \in BOOLEAN, g \in DigestValues \cup {""}}

BearerChallenge ==
    "Bearer realm=\"https://auth.example.com/token\",service=\"reg\",scope=\"repository:team/app:delete\""
WwwAuthenticateValues ==
    {<<>>, <<"Basic realm=\"registry\"">>, <<BearerChallenge>>,
     <<"Bearer realm=\"https://auth.example.com/token\"">>,
     <<"bearer realm=\"https://auth.example.com/token\"">>}

NoResp == [set |-> FALSE, doErr |-> "", StatusCode |-> 0, Status |-> "",
           Header |-> EmptyHeader, Body |-> "", readErr |-> FALSE]

\* what client.Do returns: a response ...
MkResp(code, wwwAuth, body, readErr) ==
    [set |-> TRUE, doErr |-> "", StatusCode |-> code, Status |-> StatusLine(code),
     Header |-> [EmptyHeader EXCEPT !["Www-Authenticate"] = wwwAuth],
     Body |-> body, readErr |-> readErr]

\* ... or an error
DoError(msg) == [NoResp EXCEPT !.set = TRUE, !.doErr = msg]

TransportErrors == {"dial tcp: connection refused"}

RegistryAnswers ==
    {MkResp(c, w, "", FALSE) : c \in Statuses, w \in WwwAuthenticateValues}
        \cup {DoError(m) : m \in TransportErrors}

TokenAnswers ==
    {MkResp(c, <<>>, b, FALSE) : c \in Statuses, b \in Bodies}
        \cup {MkResp(StatusOK, <<>>, "", TRUE)}
        \cup {DoError(m) : m \in TransportErrors}

\* Go error values
Nil == [returned |-> TRUE, err |-> FALSE, msg |-> ""]
Errorf(msg) == [returned |-> TRUE, err |-> TRUE, msg |-> msg]
NotReturned == [returned |-> FALSE, err |-> FALSE, msg |-> ""]

NoRequest == [Method |-> "", URL |-> "", Header |-> EmptyHeader]
NoToken == [ok |-> FALSE, Token |-> ""]
NoPush == [called |-> FALSE, image |-> "", RegistryAuth |-> "", engineErr |-> "",
           stream |-> <<>>, consumed |-> 0, opened |-> FALSE, closed |-> FALSE,
           result |-> NotReturned]

-----------------------------------------------------------------------------
(* resourceDockerRegistryImageDelete and removeRegistryImage *)

\* (a handler that never looks at keep_remote)
KeepRemoteIgnored(rd) == FALSE

\* line 40
KeepRemote(rd) == rd.keep_remote

\* lines 49-54
WithRegistry(p) ==
    IF p.Registry = "" THEN [p EXCEPT !.Registry = "registry.hub.docker.com"]
    ELSE [p EXCEPT !.Repository = ReplaceFirst(@, p.Registry \o "/", "")]

\* lines 56-61
WithLibrary(p) ==
    IF p.Registry = "registry.hub.docker.com" /\ ~Contains(p.Repository, "/")
    THEN [p EXCEPT !.Repository = "library/" \o @] ELSE p

\* lines 63-65
WithTag(p) == IF p.Tag = "" THEN [p EXCEPT !.Tag = "latest"] ELSE p

\* lines 44-65: the pull options the Delete handler derives from the name
DeleteOptions(name) == WithTag(WithLibrary(WithRegistry(parseImageOptions(name))))

\* the entry of the table under key, or empty credentials
EntryOrEmpty(table, key) ==
    IF key \in DOMAIN table
    THEN [Username |-> table[key].Username, Password |-> table[key].Password]
    ELSE [Username |-> "", Password |-> ""]

\* lines 67-73: username and password of the registry's table entry, if any
LookupAuth(table, registry) == EntryOrEmpty(table, normalizeRegistryAddress(registry))

\* lines 121-122: TF_ACC is set and is an integer >= 1
InsecureRequested(env) == env.set /\ Atoi(env.value).ok /\ Atoi(env.value).i >= 1

\* lines 117-130: client is http.DefaultClient itself; its Transport is
\* replaced when insecure mode is requested and left alone otherwise
TransportAfter(current, env) == IF InsecureRequested(env) THEN "insecure" ELSE current

\* line 132
ManifestURL(registry, image, manifest) ==
    "https://" \o registry \o "/v2/" \o image \o "/manifests/" \o manifest

NewRequest(method, url) == [Method |-> method, URL |-> url, Header |-> EmptyHeader]

\* (basic auth attached as soon as either credential is non-empty)
WithBasicAuthOnAnyCredential(r, u, p) ==
    IF u # "" \/ p # "" THEN SetBasicAuth(r, u, p) ELSE r

\* lines 137-139 and 169-171
WithBasicAuth(r, u, p) == IF u # "" THEN SetBasicAuth(r, u, p) ELSE r

\* lines 160-171
TokenRequestFor(auth, u, p) ==
    WithBasicAuth(NewRequest("GET", auth.realm \o "?" \o EncodeParams(auth.service, auth.scope)),
                  u, p)

\* lines 159-171: the token GET built from the challenge
TokenRequest(r, u, p) ==
    TokenRequestFor(parseAuthHeader(HeaderGet(r.Header, "www-authenticate")), u, p)

\* (404 falls through to the default case)
InitialDispositionNotFoundRejected(r) ==
    CASE r.StatusCode = StatusAccepted -> "success"
      [] r.StatusCode = StatusUnauthorized ->
            IF HasPrefix(HeaderGet(r.Header, "www-authenticate"), "Bearer")
            THEN "bearer" ELSE "bad_credentials"
      [] OTHER -> "bad_response"

\* (every 401 enters the bearer flow, whatever the challenge)
InitialDispositionAnyChallenge(r) ==
    CASE r.StatusCode = StatusAccepted -> "success"
      [] r.StatusCode = StatusNotFound -> "success"
      [] r.StatusCode = StatusUnauthorized -> "bearer"
      [] OTHER -> "bad_response"

\* (200 accepted on the initial request as well)
InitialDispositionOKAccepted(r) ==
    CASE r.StatusCode \in {StatusAccepted, StatusOK} -> "success"
      [] r.StatusCode = StatusNotFound -> "success"
      [] r.StatusCode = StatusUnauthorized ->
            IF HasPrefix(HeaderGet(r.Header, "www-authenticate"), "Bearer")
            THEN "bearer" ELSE "bad_credentials"
      [] OTHER -> "bad_response"

\* lines 147-213: what the status of the initial response selects
InitialDisposition(r) ==
    CASE r.StatusCode = StatusAccepted -> "success"
      [] r.StatusCode = StatusNotFound -> "success"
      [] r.StatusCode = StatusUnauthorized ->
            IF HasPrefix(HeaderGet(r.Header, "www-authenticate"), "Bearer")
            THEN "bearer" ELSE "bad_credentials"
      [] OTHER -> "bad_response"

\* (Header.Add instead of Header.Set: the bearer value joins the basic one)
RetryRequestAdd(r, t) == [r EXCEPT !.Header = HeaderAdd(@, "Authorization", "Bearer " \o t.Token)]

\* line 194
RetryRequest(r, t) == [r EXCEPT !.Header = HeaderSet(@, "Authorization", "Bearer " \o t.Token)]

\* (the retried path checks for 202 like the initial one)
RetryAcceptedOnlyAccepted(r) == r.StatusCode = StatusAccepted

\* (the two acceptance sets unified)
RetryAcceptedUnified(r) == r.StatusCode \in {StatusOK, StatusAccepted}

\* line 201
RetryAccepted(r) == r.StatusCode = StatusOK

\* (the token status is not looked at)
TokenAcceptedUnchecked(r) == TRUE

\* line 179
TokenAccepted(r) == r.StatusCode = StatusOK

\* (the error of client.Do is not looked at)
DoFailedIgnored(r) == FALSE

\* lines 143, 175, 197: client.Do returned an error
DoFailed(r) == r.doErr # ""

\* (the request is handed to the client twice)
SendTwice(r, transport) ==
    wire \o <<[Method |-> r.Method, URL |-> r.URL, Header |-> r.Header,
               InsecureSkipVerify |-> (transport = "insecure")],
              [Method |-> r.Method, URL |-> r.URL, Header |-> r.Header,
               InsecureSkipVerify |-> (transport = "insecure")]>>

\* client.Do(r): the request goes out under the client's current transport
Send(r, transport) ==
    Append(wire, [Method |-> r.Method, URL |-> r.URL, Header |-> r.Header,
                  InsecureSkipVerify |-> (transport = "insecure")])

\* (the ID is cleared before the error of the removal is looked at)
RemoveReturnsClearsFirst(rr) ==
    /\ removeRet' = rr
    /\ pc' = "returned"
    /\ d' = [d EXCEPT !.id = ""]
    /\ IF rr.err
       THEN ret' = Errorf("Unable to remove Docker image: " \o rr.msg)
       ELSE ret' = Nil

\* lines 75-81: removeRegistryImage returned rr; the handler finishes
RemoveReturns(rr) ==
    /\ removeRet' = rr
    /\ pc' = "returned"
    /\ IF rr.err
       THEN /\ ret' = Errorf("Unable to remove Docker image: " \o rr.msg)
            /\ d' = d
       ELSE /\ ret' = Nil
            /\ d' = [d EXCEPT !.id = ""]

\* lines 39-141: the handler up to the first client.Do
DeleteCall ==
    /\ pc = "idle"
    /\ calls < MaxCalls
    /\ d.id # ""
    /\ calls' = calls + 1
    /\ op' = "Delete"
    /\ IF KeepRemote(d)
       THEN /\ ret' = Nil
            /\ pc' = "returned"
            /\ UNCHANGED <<d, defaultTransport, req, username, password, wire, removeRet>>
       ELSE \E pullOpts \in {DeleteOptions(d.name)} :
            \E auth \in {LookupAuth(authConfigs, pullOpts.Registry)} :
                /\ username' = auth.Username
                /\ password' = auth.Password
                /\ defaultTransport' = TransportAfter(defaultTransport, tfAcc)
                /\ req' = WithBasicAuth(
                            NewRequest("DELETE",
                                ManifestURL(pullOpts.Registry, pullOpts.Repository,
                                            d.sha256_digest)),
                            username', password')
                /\ wire' = Send(req', defaultTransport')
                /\ pc' = "initial_do"
                /\ UNCHANGED <<d, removeRet, ret>>
    /\ UNCHANGED <<authConfigs, tfAcc, resp, tokenResponse, token, digestResponse,
                   push, readCalls>>

\* lines 141-173: the initial DELETE returned
InitialResponse ==
    /\ pc = "initial_do"
    /\ \E r \in RegistryAnswers :
        /\ resp' = r
        /\ IF DoFailed(r)
           THEN /\ RemoveReturns(Errorf("Error during registry request: " \o r.doErr))
                /\ UNCHANGED wire
           ELSE \E disposition \in {InitialDisposition(r)} :
                    CASE disposition = "success" ->
                            RemoveReturns(Nil) /\ UNCHANGED wire
                      [] disposition = "bearer" ->
                            /\ wire' = Send(TokenRequest(r, username, password), defaultTransport)
                            /\ pc' = "token_do"
                            /\ UNCHANGED <<d, removeRet, ret>>
                      [] disposition = "bad_credentials" ->
                            RemoveReturns(Errorf("Bad credentials: " \o r.Status))
                                /\ UNCHANGED wire
                      [] OTHER ->
                            RemoveReturns(Errorf("Got bad response from registry: " \o r.Status))
                                /\ UNCHANGED wire
    /\ UNCHANGED <<op, calls, authConfigs, tfAcc, defaultTransport, req, username, password,
                   tokenResponse, token, digestResponse, push, readCalls>>

\* lines 173-195: the token GET returned
TokenResponseArrives ==
    /\ pc = "token_do"
    /\ \E r \in TokenAnswers :
        /\ tokenResponse' = r
        /\ \E t \in {JsonUnmarshalToken(r.Body)} :
               IF DoFailed(r)
               THEN /\ RemoveReturns(Errorf("Error during registry request: " \o r.doErr))
                    /\ UNCHANGED <<req, token, wire>>
               ELSE IF ~TokenAccepted(r)
               THEN /\ RemoveReturns(Errorf("Got bad response from registry: " \o r.Status))
                    /\ UNCHANGED <<req, token, wire>>
               ELSE IF r.readErr
               THEN /\ RemoveReturns(Errorf("Error reading response body: unexpected EOF"))
                    /\ UNCHANGED <<req, token, wire>>
               ELSE IF ~t.ok
               THEN /\ RemoveReturns(Errorf("Error parsing OAuth token response: invalid JSON"))
                    /\ token' = t
                    /\ UNCHANGED <<req, wire>>
               ELSE /\ token' = t
                    /\ req' = RetryRequest(req, t)
                    /\ wire' = Send(req', defaultTransport)
                    /\ pc' = "retry_do"
                    /\ UNCHANGED <<d, removeRet, ret>>
    /\ UNCHANGED <<op, calls, authConfigs, tfAcc, defaultTransport, username, password,
                   resp, digestResponse, push, readCalls>>

\* lines 195-205: the retried DELETE returned
RetryResponse ==
    /\ pc = "retry_do"
    /\ \E r \in {a \in RegistryAnswers : a.doErr # "" \/ a.Header = EmptyHeader} :
        /\ digestResponse' = r
        /\ IF DoFailed(r)
           THEN RemoveReturns(Errorf("Error during registry request: " \o r.doErr))
           ELSE IF ~RetryAccepted(r)
           THEN RemoveReturns(Errorf("Got bad response from registry: " \o r.Status))
           ELSE RemoveReturns(Nil)
    /\ UNCHANGED <<op, calls, authConfigs, tfAcc, defaultTransport, req, username, password,
                   resp, tokenResponse, token, wire, push, readCalls>>

-----------------------------------------------------------------------------
(* pushImage and resourceDockerRegistryImageCreate / Update *)

\* one record of the engine's newline-delimited JSON push stream
StreamRecords == {[status |-> "Pushing", error |-> ""],
                  [status |-> "", error |-> "denied: requested access to the resource is denied"],
                  [status |-> "", error |-> "unauthorized: authentication required"]}

RECURSIVE StreamsUpTo(_)
StreamsUpTo(n) ==
    IF n = 0 THEN {<<>>}
    ELSE {<<>>} \cup {<<r>> \o st : r \in StreamRecords, st \in StreamsUpTo(n - 1)}

\* client.ImagePush: an error, or an open stream of records
EngineAnswers ==
    {[err |-> "", stream |-> st] : st \in StreamsUpTo(MaxStream)}
        \cup {[err |-> "Cannot connect to the Docker daemon", stream |-> <<>>]}

\* lines 85-98: the auth config pushImage selects
\* (the public hub looked up under the engine's index address)
PushAuthForIndexKey(table, pullOpts) ==
    IF pullOpts.Registry # ""
    THEN IF normalizeRegistryAddress(pullOpts.Registry) \in DOMAIN table
         THEN table[normalizeRegistryAddress(pullOpts.Registry)]
         ELSE [Username |-> "", Password |-> ""]
    ELSE IF "https://index.docker.io/v1/" \in DOMAIN table
         THEN table["https://index.docker.io/v1/"]
         ELSE [Username |-> "", Password |-> ""]

PushAuthFor(table, pullOpts) ==
    IF pullOpts.Registry # ""
    THEN IF normalizeRegistryAddress(pullOpts.Registry) \in DOMAIN table
         THEN table[normalizeRegistryAddress(pullOpts.Registry)]
         ELSE [Username |-> "", Password |-> ""]
    ELSE IF "https://registry.hub.docker.com" \in DOMAIN table
         THEN table["https://registry.hub.docker.com"]
         ELSE [Username |-> "", Password |-> ""]

PushAuth(table, image) == PushAuthFor(table, parseImageOptions(image))

\* json.Marshal(types.AuthConfig): both fields are omitempty
JsonObject(fields) ==
    "{" \o (IF Len(fields) = 0 THEN ""
            ELSE IF Len(fields) = 1 THEN fields[1]
            ELSE fields[1] \o "," \o fields[2]) \o "}"

\* (the fields marshalled without omitempty)
JsonMarshalAuthAllFields(auth) ==
    JsonObject(<<"\"username\":\"" \o auth.Username \o "\"",
                 "\"password\":\"" \o auth.Password \o "\"">>)

JsonMarshalAuth(auth) ==
    JsonObject((IF auth.Username = "" THEN <<>>
                ELSE <<"\"username\":\"" \o auth.Username \o "\"">>)
               \o (IF auth.Password = "" THEN <<>>
                   ELSE <<"\"password\":\"" \o auth.Password \o "\"">>))

\* processStreamingOutput (outside the two source files; specification 4.3):
\* records are decoded in order, the first one with a non-empty error field
\* ends processing and is the error returned; exhaustion is success
StreamResult(stream, first) ==
    IF first = 0 THEN [consumed |-> Len(stream), result |-> Nil]
    ELSE [consumed |-> first, result |-> Errorf(stream[first].error)]

FirstError(stream, errs) ==
    IF errs = {} THEN 0 ELSE CHOOSE i \in errs : \A j \in errs : i <= j

processStreamingOutput(stream) ==
    StreamResult(stream, FirstError(stream, {i \in 1..Len(stream) : stream[i].error # ""}))

\* lines 84-114
\* (Close called after processing instead of deferred: skipped on an early return)
PushOutcomeCloseNotDeferred(called, engine, out) ==
    IF engine.err # ""
    THEN [called EXCEPT
            !.result = Errorf("error pulling image " \o called.image \o ": " \o engine.err)]
    ELSE [called EXCEPT !.stream = engine.stream, !.opened = TRUE,
                        !.consumed = out.consumed, !.closed = ~out.result.err,
                        !.result = out.result]

\* (the stream is processed and its result dropped)
PushOutcomeDropped(called, engine, out) ==
    IF engine.err # ""
    THEN [called EXCEPT
            !.result = Errorf("error pulling image " \o called.image \o ": " \o engine.err)]
    ELSE [called EXCEPT !.stream = engine.stream, !.opened = TRUE,
                        !.consumed = out.consumed, !.closed = TRUE,
                        !.result = Nil]

\* lines 108-113: the engine's answer to ImagePush and what comes of it; the
\* deferred Close runs on every return once the stream is open
PushOutcome(called, engine, out) ==
    IF engine.err # ""
    THEN [called EXCEPT
            !.result = Errorf("error pulling image " \o called.image \o ": " \o engine.err)]
    ELSE [called EXCEPT !.stream = engine.stream, !.opened = TRUE,
                        !.consumed = out.consumed, !.closed = TRUE,
                        !.result = out.result]

\* lines 84-114
pushImage(table, image, engine) ==
    PushOutcome([NoPush EXCEPT !.called = TRUE, !.image = image,
                               !.RegistryAuth = Base64(JsonMarshalAuth(PushAuth(table, image))),
                               !.engineErr = engine.err],
                engine, processStreamingOutput(engine.stream))

\* dataSourceDockerRegistryImageRead (outside the two source files): asks the
\* registry for the digest of the name and records it, or fails
ReadAnswers == {[err |-> "", digest |-> g] : g \in DigestValues}
                  \cup {[err |-> "Got error when attempting to fetch image version from registry",
                         digest |-> ""]}

dataSourceDockerRegistryImageRead(answer) ==
    /\ readCalls' = readCalls + 1
    /\ IF answer.err # ""
       THEN ret' = Errorf(answer.err) /\ d' = d
       ELSE /\ ret' = Nil
            /\ d' = [d EXCEPT !.sha256_digest = answer.digest, !.id = answer.digest]

\* (the error of pushImage is not looked at)
PushFailedIgnored(p) == FALSE

\* line 27
PushFailed(p) == p.result.err

\* lines 22-32
CreateCall ==
    /\ pc = "idle"
    /\ calls < MaxCalls
    /\ d.id = ""
    /\ calls' = calls + 1
    /\ op' = "Create"
    /\ pc' = "returned"
    /\ \E engine \in EngineAnswers, answer \in ReadAnswers :
        /\ push' = pushImage(authConfigs, d.name, engine)
        /\ IF PushFailed(push')
           THEN /\ ret' = Errorf("Unable to push Docker image: " \o push'.result.msg)
                /\ UNCHANGED <<d, readCalls>>
           ELSE dataSourceDockerRegistryImageRead(answer)
    /\ UNCHANGED <<authConfigs, tfAcc, defaultTransport, req, username, password, resp,
                   tokenResponse, token, digestResponse, wire, removeRet>>

\* lines 34-37
UpdateCall ==
    /\ pc = "idle"
    /\ calls < MaxCalls
    /\ d.id # ""
    /\ calls' = calls + 1
    /\ op' = "Update"
    /\ pc' = "returned"
    /\ \E answer \in ReadAnswers : dataSourceDockerRegistryImageRead(answer)
    /\ UNCHANGED <<authConfigs, tfAcc, defaultTransport, req, username, password, resp,
                   tokenResponse, token, digestResponse, wire, removeRet, push>>

-----------------------------------------------------------------------------
(* The lifecycle wrapper: one handler call at a time, each on a resource and *)
(* in an environment of the wrapper's choosing                               *)

NextCall ==
    /\ pc = "returned"
    /\ calls < MaxCalls
    /\ pc' = "idle"
    /\ op' = "none"
    /\ d' \in ResourceData
    /\ tfAcc' \in TfAccValues
    /\ req' = NoRequest
    /\ username' = ""
    /\ password' = ""
    /\ resp' = NoResp
    /\ tokenResponse' = NoResp
    /\ token' = NoToken
    /\ digestResponse' = NoResp
    /\ wire' = <<>>
    /\ removeRet' = NotReturned
    /\ push' = NoPush
    /\ readCalls' = 0
    /\ ret' = NotReturned
    /\ UNCHANGED <<calls, authConfigs, defaultTransport>>

Init ==
    /\ pc = "idle"
    /\ op = "none"
    /\ calls = 0
    /\ d \in ResourceData
    /\ authConfigs \in AuthTables
    /\ tfAcc \in TfAccValues
    /\ defaultTransport = "default"
    /\ req = NoRequest
    /\ username = ""
    /\ password = ""
    /\ resp = NoResp
    /\ tokenResponse = NoResp
    /\ token = NoToken
    /\ digestResponse = NoResp
    /\ wire = <<>>
    /\ removeRet = NotReturned
    /\ push = NoPush
    /\ readCalls = 0
    /\ ret = NotReturned

Next ==
    \/ DeleteCall
    \/ InitialResponse
    \/ TokenResponseArrives
    \/ RetryResponse
    \/ CreateCall
    \/ UpdateCall
    \/ NextCall

Spec == Init /\ [][Next]_vars

-----------------------------------------------------------------------------
(* Properties *)

\* the response r is an HTTP response (client.Do returned no error)
Answered(r) == r.set /\ r.doErr = ""

BeginsWithBearer(r) == HasPrefix(HeaderGet(r.Header, "www-authenticate"), "Bearer")

\* C1: a Delete call with keep_remote set returns success at once and hands
\* no request to the HTTP client, whatever the name, digest and table are.
C1_KeepRemoteSendsNothing ==
    (op = "Delete" /\ d.keep_remote) =>
        /\ pc = "returned"
        /\ ret = Nil
        /\ wire = <<>>
        /\ ~removeRet.returned

C1_Witness ==
    /\ op = "Delete" /\ d.keep_remote /\ pc = "returned"
    /\ authConfigs = PrivateAuth
    /\ d.name = "reg.example.com:5000/team/app:v1"

\* C2: when the first DELETE is answered 404, removeRegistryImage returns
\* success and the DELETE is the only request of the call.
C2_NotFoundFirstIsSuccess ==
    (Answered(resp) /\ resp.StatusCode = StatusNotFound) =>
        /\ pc = "returned"
        /\ removeRet = Nil
        /\ Len(wire) = 1
        /\ wire[1].Method = "DELETE"

C2_Witness ==
    Answered(resp) /\ resp.StatusCode = StatusNotFound /\ pc = "returned" /\ Len(wire) = 1

\* C3 (as claimed): whenever a DELETE of the manifest is answered 404, on the
\* initial or on the retried request, removeRegistryImage returns success.
C3_NotFoundAnywhereIsSuccess ==
    (pc = "returned" /\
        ((Answered(resp) /\ resp.StatusCode = StatusNotFound)
            \/ (Answered(digestResponse) /\ digestResponse.StatusCode = StatusNotFound))) =>
        removeRet = Nil

\* the bearer flow got as far as an answer to the retried DELETE
BearerFlowAnswered ==
    /\ Answered(resp) /\ resp.StatusCode = StatusUnauthorized /\ BeginsWithBearer(resp)
    /\ Answered(tokenResponse) /\ tokenResponse.StatusCode = StatusOK
    /\ ~tokenResponse.readErr /\ JsonUnmarshalToken(tokenResponse.Body).ok
    /\ Answered(digestResponse)

\* C4 (as claimed): bearer challenge, token 200 with a JSON body, retried
\* DELETE answered 200 or 202: removeRegistryImage returns success.
C4_BearerHappyPathOKOrAccepted ==
    (BearerFlowAnswered /\ digestResponse.StatusCode \in {StatusOK, StatusAccepted}) =>
        removeRet = Nil

\* C4 (amended): bearer challenge, token 200 with a JSON body, retried DELETE
\* answered 200: removeRegistryImage returns success.
C4_BearerHappyPathOK ==
    (BearerFlowAnswered /\ digestResponse.StatusCode = StatusOK) =>
        (pc = "returned" /\ removeRet = Nil)

C4_Witness ==
    BearerFlowAnswered /\ digestResponse.StatusCode = StatusOK /\ pc = "returned"

\* C5: the retried DELETE goes to the URL of the initial DELETE and its only
\* Authorization value is "Bearer " followed by the token of the token
\* response; the basic credentials of the initial request are gone.
C5_RetryCarriesBearerOnly ==
    (Len(wire) >= 3) =>
        /\ wire[1].Method = "DELETE"
        /\ wire[3].Method = "DELETE"
        /\ wire[3].URL = wire[1].URL
        /\ wire[3].Header["Authorization"] =
                <<"Bearer " \o JsonUnmarshalToken(tokenResponse.Body).Token>>

C5_Witness ==
    /\ Len(wire) = 3
    /\ wire[1].Header["Authorization"] = <<"Basic " \o Base64("ci:s3cret")>>
    /\ wire[3].Header["Authorization"] = <<"Bearer tok-1">>

\* C6: the retried DELETE is sent only after a token response of status 200
\* whose body parses; any other token status, or a 200 whose body is not
\* JSON, ends the call in failure with the retried DELETE never sent.
C6_RetryOnlyAfterToken ==
    /\ (Len(wire) >= 3) =>
            /\ Answered(tokenResponse) /\ tokenResponse.StatusCode = StatusOK
            /\ ~tokenResponse.readErr /\ JsonUnmarshalToken(tokenResponse.Body).ok
    /\ (Answered(tokenResponse) /\
            (tokenResponse.StatusCode # StatusOK
                \/ ~JsonUnmarshalToken(tokenResponse.Body).ok)) =>
            /\ pc = "returned"
            /\ removeRet.err
            /\ Len(wire) = 2
            /\ ~digestResponse.set

C6_Witness ==
    /\ Answered(tokenResponse) /\ tokenResponse.StatusCode = 403
    /\ tokenResponse.Body = BodyToken
    /\ pc = "returned" /\ removeRet.err

\* C7: a 401 whose WWW-Authenticate value does not begin with "Bearer" (or is
\* absent) ends the call in a failure that carries the status line, with no
\* token GET and no second DELETE.
C7_BadCredentials ==
    (Answered(resp) /\ resp.StatusCode = StatusUnauthorized /\ ~BeginsWithBearer(resp)) =>
        /\ pc = "returned"
        /\ removeRet.err
        /\ Contains(removeRet.msg, resp.Status)
        /\ Len(wire) = 1

C7_Witness ==
    /\ Answered(resp) /\ resp.StatusCode = StatusUnauthorized
    /\ resp.Header["Www-Authenticate"] = <<>>
    /\ pc = "returned" /\ removeRet.err

\* C8: an initial status other than 401 and 404 ends the call with no further
\* request; it is success exactly for 202 and otherwise a failure that
\* carries the status line (200 included).
C8_InitialStatusDecides ==
    (Answered(resp) /\ resp.StatusCode \notin {StatusUnauthorized, StatusNotFound}) =>
        /\ pc = "returned"
        /\ Len(wire) = 1
        /\ (removeRet = Nil) <=> (resp.StatusCode = StatusAccepted)
        /\ (resp.StatusCode # StatusAccepted) =>
                (removeRet.err /\ Contains(removeRet.msg, resp.Status))

C8_Witness ==
    /\ Answered(resp) /\ resp.StatusCode = StatusOK
    /\ pc = "returned" /\ removeRet.err

\* C9: on the retried DELETE 200 is success and every other status a failure
\* that carries the status line; the initial path accepts 202 and not 200,
\* the retried path 200 and not 202.
C9_RetryStatusDecides ==
    /\ Answered(digestResponse) =>
            /\ pc = "returned"
            /\ IF digestResponse.StatusCode = StatusOK THEN removeRet = Nil
               ELSE removeRet.err /\ Contains(removeRet.msg, digestResponse.Status)
    /\ (Answered(resp) /\ resp.StatusCode = StatusOK) => removeRet.err
    /\ (Answered(resp) /\ resp.StatusCode = StatusAccepted) => removeRet = Nil

C9_Witness ==
    /\ Answered(digestResponse) /\ digestResponse.StatusCode = StatusAccepted
    /\ pc = "returned" /\ removeRet.err

\* the first record of the stream with a non-empty error field (0: none)
FirstErrorRecord(stream) ==
    IF \A i \in 1..Len(stream) : stream[i].error = "" THEN 0
    ELSE CHOOSE i \in 1..Len(stream) :
            stream[i].error # "" /\ \A j \in 1..(i - 1) : stream[j].error = ""

\* C10: pushImage fails whenever the push stream holds a record with a
\* non-empty error field, also after progress records; the first such record
\* ends processing and its message is the failure; pushImage succeeds only
\* when the stream was read to its end without one.
C10_PushFailsOnErrorRecord ==
    /\ (push.called /\ push.opened) =>
            IF FirstErrorRecord(push.stream) # 0
            THEN /\ push.result = Errorf(push.stream[FirstErrorRecord(push.stream)].error)
                 /\ push.consumed = FirstErrorRecord(push.stream)
            ELSE push.result = Nil
    /\ (push.called /\ push.result = Nil) =>
            /\ push.opened
            /\ FirstErrorRecord(push.stream) = 0
            /\ push.consumed = Len(push.stream)

C10_Witness ==
    /\ push.called /\ push.opened /\ Len(push.stream) = 3
    /\ push.stream[1].error = "" /\ push.stream[2].error # "" /\ push.stream[3].error # ""
    /\ push.stream[2].error # push.stream[3].error
    /\ push.result.err /\ push.consumed = 2

\* the credential-table key of an image name: its registry, scheme-qualified,
\* the public hub when the name carries none
TableKey(name) == normalizeRegistryAddress(DeleteOptions(name).Registry)

\* C11: pushImage always calls the engine push with an auth header: when no
\* table entry matches the image (an empty table included) the header is the
\* base64 encoding of the empty JSON object, and the push is still attempted.
C11_AnonymousPushSendsEmptyObject ==
    (op = "Create") =>
        /\ push.called
        /\ push.RegistryAuth # ""
        /\ (TableKey(push.image) \notin DOMAIN authConfigs) =>
                push.RegistryAuth = Base64("{}")

C11_Witness ==
    /\ op = "Create" /\ authConfigs = NoAuth /\ push.called /\ push.opened
    /\ push.RegistryAuth = Base64("{}")

\* C12: a name without registry ("consul") selects the table entry that
\* "registry.hub.docker.com/library/consul" selects, and pushImage and the
\* Delete handler select the same entry (or none) for one name and table.
C12_SameEntryInPushAndDelete ==
    /\ (op = "Delete" /\ ~d.keep_remote) =>
            /\ [Username |-> username, Password |-> password]
                    = PushAuth(authConfigs, d.name)
            /\ (d.name = "consul") =>
                    [Username |-> username, Password |-> password]
                        = LookupAuth(authConfigs,
                            DeleteOptions("registry.hub.docker.com/library/consul").Registry)
    /\ (op = "Create") =>
            /\ push.RegistryAuth = Base64(JsonMarshalAuth(
                    LookupAuth(authConfigs, DeleteOptions(push.image).Registry)))
            /\ (push.image = "consul") =>
                    push.RegistryAuth = Base64(JsonMarshalAuth(
                        PushAuth(authConfigs, "registry.hub.docker.com/library/consul")))

C12_Witness ==
    /\ op = "Delete" /\ d.name = "consul" /\ authConfigs = HubAuth
    /\ username = "hubuser" /\ Len(wire) = 1

\* C13 (as claimed): every request of a call goes out with strict certificate
\* verification unless TF_ACC, as it is during that call, is an integer >= 1,
\* whatever it was during earlier calls.
C13_TLSModeFollowsFlagOfTheCall ==
    \A i \in 1..Len(wire) : wire[i].InsecureSkipVerify => InsecureRequested(tfAcc)

\* C18 (as claimed): the handlers write no state that outlives a call or is
\* visible to another call; the process-wide HTTP client and the credential
\* table are left as they were found.
C18_NoSharedStateWritten ==
    [][defaultTransport' = defaultTransport /\ authConfigs' = authConfigs]_vars

\* the number of client.Do calls of the current call that have returned
ResponsesReceived ==
    (IF resp.set THEN 1 ELSE 0) + (IF tokenResponse.set THEN 1 ELSE 0)
        + (IF digestResponse.set THEN 1 ELSE 0)

\* C14 (as claimed): one delete call makes at most two HTTP round trips.
C14_AtMostTwoRoundTrips == Len(wire) <= 2

\* C14 (amended): one delete call makes at most three HTTP round trips, the
\* initial DELETE, the token GET and the retried DELETE, in this order; each
\* request is sent only after the answer to the previous one was received, so
\* at most one request is outstanding at any time.
C14_AtMostThreeOrderedRoundTrips ==
    /\ Len(wire) <= 3
    /\ Len(wire) - ResponsesReceived \in {0, 1}
    /\ (Len(wire) - ResponsesReceived = 1) <=> (pc \in {"initial_do", "token_do", "retry_do"})
    /\ (Len(wire) >= 1) => wire[1].Method = "DELETE"
    /\ (Len(wire) >= 2) => (Answered(resp) /\ wire[2].Method = "GET")
    /\ (Len(wire) >= 3) => (Answered(tokenResponse) /\ wire[3].Method = "DELETE")
    /\ tokenResponse.set => resp.set
    /\ digestResponse.set => tokenResponse.set

C14_Witness ==
    /\ Len(wire) = 3 /\ ResponsesReceived = 3 /\ pc = "returned"
    /\ wire[2].Method = "GET"

\* the requests of the current call with the given method
Sent(method) == {i \in 1..Len(wire) : wire[i].Method = method}

\* the answer to the latest request, if it has come
LastAnswer ==
    IF digestResponse.set THEN digestResponse
    ELSE IF tokenResponse.set THEN tokenResponse
    ELSE resp

\* C15: a call sends the DELETE at most twice and the token GET at most
\* once, each answer either ends the call or is followed by exactly one
\* further request, and a transport error on any of the requests ends the
\* call at once in a failure that carries the error, no request following.
C15_NoRetryBeyondChallenge ==
    /\ Cardinality(Sent("DELETE")) <= 2
    /\ Cardinality(Sent("GET")) <= 1
    /\ Cardinality(Sent("DELETE")) + Cardinality(Sent("GET")) = Len(wire)
    /\ (pc = "initial_do") => (Len(wire) = 1 /\ ~resp.set)
    /\ (pc = "token_do") => (Len(wire) = 2 /\ ~tokenResponse.set)
    /\ (pc = "retry_do") => (Len(wire) = 3 /\ ~digestResponse.set)
    /\ digestResponse.set => pc = "returned"
    /\ \A r \in {resp, tokenResponse, digestResponse} :
            (r.set /\ r.doErr # "") =>
                /\ pc = "returned"
                /\ r = LastAnswer
                /\ Len(wire) = ResponsesReceived
                /\ removeRet.err
                /\ Contains(removeRet.msg, r.doErr)
                /\ ret.err
    /\ (op = "Delete" /\ pc = "returned" /\ ~d.keep_remote) =>
            (removeRet.returned /\ ret.returned /\ Len(wire) = ResponsesReceived)

C15_Witness ==
    /\ tokenResponse.set /\ tokenResponse.doErr # ""
    /\ pc = "returned" /\ Len(wire) = 2 /\ removeRet.err

\* the Authorization values of a request that carries basic auth for the
\* resolved credentials, and of one that carries none
BasicAuthExpected ==
    IF username # "" THEN <<"Basic " \o Base64(username \o ":" \o password)>> ELSE <<>>

\* C16: the initial DELETE and the token GET carry basic auth exactly when
\* the resolved username is non-empty; with an empty username both go out
\* without Authorization, also when a password is present.
C16_BasicAuthIffUsername ==
    /\ (Len(wire) >= 1) => wire[1].Header["Authorization"] = BasicAuthExpected
    /\ (Len(wire) >= 2) =>
            /\ wire[2].Method = "GET"
            /\ wire[2].Header["Authorization"] = BasicAuthExpected
    /\ (op = "Delete" /\ ~d.keep_remote) =>
            /\ username = LookupAuth(authConfigs, DeleteOptions(d.name).Registry).Username
            /\ password = LookupAuth(authConfigs, DeleteOptions(d.name).Registry).Password

C16_Witness ==
    /\ Len(wire) >= 2 /\ username = "" /\ password = "orphan"
    /\ wire[1].Header["Authorization"] = <<>>
    /\ wire[2].Header["Authorization"] = <<>>

\* C17: whenever ImagePush returned a stream, the stream is closed by the time
\* pushImage has returned, after full consumption as well as after an early
\* return; when ImagePush failed there is no stream and nothing is closed.
C17_StreamClosedOnEveryReturn ==
    (push.called /\ push.result.returned) =>
        /\ push.opened <=> (push.engineErr = "")
        /\ push.opened => push.closed
        /\ ~push.opened => ~push.closed

C17_Witness ==
    /\ push.called /\ push.opened /\ push.closed
    /\ push.result.err /\ push.consumed < Len(push.stream)

\* C19: in a Delete call the resource ID changes only in the step in which
\* removeRegistryImage returns success, and then to ""; when the removal
\* fails the handler returns an error and the resource data is as before;
\* with keep_remote set the handler returns success and changes nothing.
C19_IdClearedOnlyAfterRemoval ==
    [][(op' = "Delete") =>
        /\ (d' # d) =>
                /\ d' = [d EXCEPT !.id = ""]
                /\ ~removeRet.returned /\ removeRet' = Nil
                /\ pc' = "returned" /\ ret' = Nil
        /\ (removeRet'.returned /\ removeRet'.err) => (d' = d /\ ret'.err)
        /\ (removeRet'.returned /\ ~removeRet'.err) => (d'.id = "" /\ ret' = Nil)
        /\ d.keep_remote =>
                (d' = d /\ ~removeRet'.returned /\ pc' = "returned" /\ ret' = Nil)
      ]_vars

C19_Witness ==
    /\ op = "Delete" /\ pc = "returned" /\ removeRet.err /\ ret.err
    /\ d.id # "" /\ digestResponse.set

\* C20: Create invokes the read only after pushImage succeeded: when the push
\* fails it returns the push error, the read is not invoked and no digest or
\* ID is recorded; Update invokes the read and neither a push nor a request
\* to the registry.
C20_ReadOnlyAfterPush ==
    /\ (op = "Create") =>
            /\ push.called
            /\ wire = <<>> /\ ~removeRet.returned
            /\ IF push.result.err
               THEN /\ ret = Errorf("Unable to push Docker image: " \o push.result.msg)
                    /\ readCalls = 0
                    /\ d.id = "" /\ d.sha256_digest = ""
               ELSE readCalls = 1
    /\ (op = "Update") =>
            /\ ~push.called
            /\ wire = <<>> /\ ~removeRet.returned
            /\ readCalls = 1

C20_Witness ==
    /\ op = "Create" /\ push.called /\ push.opened /\ push.result.err
    /\ readCalls = 0 /\ ret.err

====
